---- MODULE Spec2Model ----
(***************************************************************************)
(* A model of the stateful pieces of the Aide editor integration:          *)
(*   - AideProbeModel / AideProbeResponseModel (probe response view-model) *)
(*   - AideAgentSessionProvider.provideEditStreamed (streamed edits)       *)
(*   - promiseFromEvent and the CodeStory authentication provider          *)
(*   - parsePlanActionCommand and generateDiffstats (pure functions)       *)
(* Each component has its own specification (SpecProbe, SpecEdit, ...);    *)
(* the variables of the other components stay at their initial values.     *)
(*                                                                         *)
(* Conventions: an optional value (T | undefined) is a sequence of length  *)
(* 0 or 1; a JavaScript string whose characters matter is a sequence of    *)
(* one-character strings; a Map is a function whose DOMAIN is its key set. *)
(***************************************************************************)
EXTENDS Integers, Sequences, FiniteSets, TLC

VARIABLES
    \* ---- AideProbeModel (src/unnamed/part_000) ----
    request,        \* _request: <<>> (undefined) or <<request>>
    response,       \* _response: <<>> (undefined) or <<AideProbeResponseModel>>
    isComplete,     \* _isComplete
    isTailing,      \* _isTailing
    changeFired,    \* number of times _onDidChange has fired
    appliedRefs,    \* history: the (uri, name) pairs given to applyBreakdown, first-application order
    probeOp,        \* history: the last AideProbeModel operation and how it ended
    accepted,       \* history: <<the progress the last operation applied>>, else <<>>
    \* ---- AideAgentSessionProvider (src/unnamed/part_001) ----
    editorUrl,          \* <<>> (undefined) or <<url>>
    openResponseStream, \* <<>> (undefined) or <<stream>>
    editCounter,        \* editCounter
    editsMap,           \* Map<edit_request_id, reference into managers>
    managers,           \* heap of the { answerSplitter, streamProcessor } objects ever created
    calls,              \* the provideEditStreamed calls suspended at an await
    nCalls,             \* number of provideEditStreamed calls made so far
    editOp,             \* history: the last step of the provider and how it ended
    givenStream,        \* history: <<the stream given to generateResponse>> if that was the last step
    \* ---- promiseFromEvent (src/unnamed/part_004) ----
    pfe,                \* one { promise, cancel } pair made by promiseFromEvent
    nEvents,            \* number of events emitted so far
    \* ---- CodeStoryAuthProvider (src/unnamed/part_004) ----
    secretSessions,     \* context.secrets under SESSIONS_SECRET_KEY: <<>> or <<the stored list>>
    pendingStates,      \* _pendingStates
    loginPromises,      \* _loginPromises: Map<stateId, reference into logins>
    logins,             \* heap of the promiseFromEvent pairs made by login, with history
    creates,            \* the createSession calls suspended at an await
    removes,            \* the removeSession calls suspended at an await
    uuids,              \* number of createSession calls so far, each drawing two uuidv4() values
    nRedirects,         \* number of redirect URIs handled so far
    authOp,             \* history: the last step of the provider and how it ended
    \* ---- Plan mode of generateResponse (src/unnamed/part_001) ----
    planPrompt,         \* event.prompt of a Plan-mode request
    planParsed,         \* <<>>, or <<what parsePlanActionCommand did with it: a value or a throw>>
    planCall,           \* the sidecar request generateResponse then made ("pending" before)
    \* ---- generateDiffstats (aideCommandPalettePanel.ts) ----
    fileChanges,        \* the argument of generateDiffstats
    diffstats           \* <<>>, or <<its result>>

probeVars == <<request, response, isComplete, isTailing, changeFired, appliedRefs, probeOp,
               accepted>>

editVars == <<editorUrl, openResponseStream, editCounter, editsMap, managers, calls, nCalls, editOp,
              givenStream>>

eventVars == <<pfe, nEvents>>

authVars == <<secretSessions, pendingStates, loginPromises, logins, creates, removes, uuids,
              nRedirects, authOp>>

planVars == <<planPrompt, planParsed, planCall>>
diffVars == <<fileChanges, diffstats>>

vars == <<probeVars, editVars, eventVars, authVars, planVars, diffVars>>

\* What the steps of one component leave alone: the other components.
notProbe == <<editVars, eventVars, authVars, planVars, diffVars>>
notEdit == <<probeVars, eventVars, authVars, planVars, diffVars>>
notEvent == <<probeVars, editVars, authVars, planVars, diffVars>>
notAuth == <<probeVars, editVars, eventVars, planVars, diffVars>>
notPlan == <<probeVars, editVars, eventVars, authVars, diffVars>>
notDiff == <<probeVars, editVars, eventVars, authVars, planVars>>

None == <<>>
Some(x) == <<x>>

\* The elements of sequence s, as a set.
Range(s) == {s[i] : i \in 1..Len(s)}

(***************************************************************************)
(* Bounds of the probe model.                                              *)
(***************************************************************************)
\* onDidChange fires at most this often in a behaviour.
MaxChanges == 3

(***************************************************************************)
(* Inputs of the probe model.  A URI is the character sequence its         *)
(* toString() gives (scheme, ":" and the rest; an authority may carry a    *)
(* port after a ":"); a symbol name is a character sequence too.           *)
(***************************************************************************)
Uris == {<<"http", ":", "//h">>, <<"http", ":", "//h", ":", "1">>}
Names == {<<"f">>, <<"1", ":", "f">>}
References == {ref \in [uri : Uris, name : Names] : Len(ref.uri) + Len(ref.name) < 8}

\* IMarkdownString | undefined: absent, empty value, or a non-empty value.
Absent == None
Ranges == {1, 2}

\* The query / reason / response triples a breakdown progress carries: every field
\* is, in some triple, absent, empty, "a" and "b".
BreakdownTexts ==
    {[query |-> Some("a"), reason |-> Some("a"), response |-> Some("a")],
     [query |-> Some("b"), reason |-> Absent, response |-> Some("")],
     [query |-> Absent, reason |-> Some(""), response |-> Some("b")],
     [query |-> Some(""), reason |-> Some("b"), response |-> Absent]}

BreakdownProgress ==
    {[kind |-> "breakdown", reference |-> ref,
      query |-> t.query, reason |-> t.reason, response |-> t.response] :
        ref \in References, t \in BreakdownTexts}
GoToDefinitionProgress ==
    {[kind |-> "goToDefinition", uri |-> ref.uri, name |-> ref.name, range |-> range] :
        ref \in References, range \in Ranges}
TextEditPreviewProgress == [kind : {"textEditPreview"}, reference : References, range : {1}]
TextEditProgress == [kind : {"textEdit"}, reference : References, range : {1}]
MarkdownProgress == [kind : {"markdownContent"}, content : {"m1", "m2"}]

IAideProbeProgress ==
    MarkdownProgress \cup BreakdownProgress \cup GoToDefinitionProgress
        \cup TextEditPreviewProgress \cup TextEditProgress

(***************************************************************************)
(* AideProbeResponseModel.  objs is the heap of breakdown objects: the map *)
(* _breakdownsBySymbol and the list _breakdowns hold references (indices   *)
(* into objs) to the same objects.                                         *)
(***************************************************************************)
NewResponseModel ==
    [result |-> None,
     objs |-> <<>>,
     breakdownsBySymbol |-> <<>>,       \* Map<string, ref>, empty
     breakdowns |-> <<>>,               \* ref[]
     goToDefinitions |-> <<>>,
     codeEditsPreviewBySymbol |-> <<>>, \* Map<string, preview[]>, empty
     codeEditsPreview |-> <<>>,
     codeEdits |-> <<>>]

\* `${reference.uri.toString()}:${reference.name}`
MapKey(reference) == reference.uri \o <<":">> \o reference.name

\* equals(one, other) of vs/base/common/objects: deep equality of two values.
Equals(one, other) == one = other

\* query && query.value.length > 0
Present(text) == text # Absent /\ text[1] # ""

MapSet(map, key, value) == [k \in (DOMAIN map) \cup {key} |-> IF k = key THEN value ELSE map[k]]
MapDelete(map, key) == [k \in (DOMAIN map) \ {key} |-> map[k]]

\* The object a breakdown progress becomes (the progress object itself is stored).
BreakdownObject(b) ==
    [reference |-> b.reference, query |-> b.query, reason |-> b.reason, response |-> b.response]

\* A variant of applyBreakdown that overwrites query, reason and response with whatever arrives.
ApplyBreakdown_OverwritesAll(r, breakdown) ==
    LET mapKey == MapKey(breakdown.reference) IN
    IF mapKey \in DOMAIN r.breakdownsBySymbol
    THEN LET ref == r.breakdownsBySymbol[mapKey] IN
         [r EXCEPT !.objs[ref].query = breakdown.query,
                   !.objs[ref].reason = breakdown.reason,
                   !.objs[ref].response = breakdown.response]
    ELSE LET ref == Len(r.objs) + 1 IN
         [r EXCEPT !.objs = Append(@, BreakdownObject(breakdown)),
                   !.breakdownsBySymbol = MapSet(@, mapKey, ref),
                   !.breakdowns = Append(@, ref)]

ApplyBreakdown(r, breakdown) ==
    LET mapKey == MapKey(breakdown.reference) IN
    IF mapKey \in DOMAIN r.breakdownsBySymbol
    THEN LET ref == r.breakdownsBySymbol[mapKey]
             old == r.objs[ref]
             upd == [old EXCEPT
                       !.query = IF Present(breakdown.query) THEN breakdown.query ELSE @,
                       !.reason = IF Present(breakdown.reason) THEN breakdown.reason ELSE @,
                       !.response = IF Present(breakdown.response) THEN breakdown.response ELSE @]
             objs2 == [r.objs EXCEPT ![ref] = upd]
             \* the positions findIndex's predicate accepts; findIndex gives the first (0 for -1)
             hits == {i \in 1..Len(r.breakdowns) :
                         /\ Equals(objs2[r.breakdowns[i]].reference.name, breakdown.reference.name)
                         /\ Equals(objs2[r.breakdowns[i]].reference.uri, breakdown.reference.uri)}
             index == IF hits = {} THEN 0 ELSE CHOOSE i \in hits : \A j \in hits : i <= j
         IN [r EXCEPT !.objs = objs2,
                      !.breakdowns = IF index # 0 THEN [@ EXCEPT ![index] = ref] ELSE @]
    ELSE LET ref == Len(r.objs) + 1 IN
         [r EXCEPT !.objs = Append(@, BreakdownObject(breakdown)),
                   !.breakdownsBySymbol = MapSet(@, mapKey, ref),
                   !.breakdowns = Append(@, ref)]

\* A variant of applyGoToDefinition that replaces the entry of a symbol it already has.
ApplyGoToDefinition_KeepsLatest(r, goToDefinition) ==
    LET gtd == [uri |-> goToDefinition.uri, name |-> goToDefinition.name,
                range |-> goToDefinition.range]
        hits == {i \in 1..Len(r.goToDefinitions) :
                    /\ Equals(r.goToDefinitions[i].uri, gtd.uri)
                    /\ Equals(r.goToDefinitions[i].name, gtd.name)}
    IN IF hits # {}
       THEN [r EXCEPT !.goToDefinitions = [i \in 1..Len(@) |-> IF i \in hits THEN gtd ELSE @[i]]]
       ELSE [r EXCEPT !.goToDefinitions = Append(@, gtd)]

ApplyGoToDefinition(r, goToDefinition) ==
    LET gtd == [uri |-> goToDefinition.uri, name |-> goToDefinition.name,
                range |-> goToDefinition.range]
        existing == \E i \in 1..Len(r.goToDefinitions) :
                        /\ Equals(r.goToDefinitions[i].uri, gtd.uri)
                        /\ Equals(r.goToDefinitions[i].name, gtd.name)
    IN IF existing THEN r ELSE [r EXCEPT !.goToDefinitions = Append(@, gtd)]

ApplyCodeEditPreview(r, codeEditPreview) ==
    LET mapKey == MapKey(codeEditPreview.reference)
        item == [reference |-> codeEditPreview.reference, range |-> codeEditPreview.range]
    IN IF mapKey \in DOMAIN r.codeEditsPreviewBySymbol
       THEN [r EXCEPT !.codeEditsPreviewBySymbol[mapKey] = Append(@, item)]
       ELSE [r EXCEPT !.codeEditsPreviewBySymbol = MapSet(@, mapKey, <<item>>),
                      !.codeEditsPreview = Append(@, item)]

\* A variant of applyCodeEdit that also takes the symbol's preview off the public list.
ApplyCodeEdit_DropsPreview(r, codeEdit) ==
    LET mapKey == MapKey(codeEdit.reference)
        item == [reference |-> codeEdit.reference, range |-> codeEdit.range]
    IN [r EXCEPT !.codeEditsPreviewBySymbol =
                     IF mapKey \in DOMAIN @ THEN MapDelete(@, mapKey) ELSE @,
                 !.codeEditsPreview = SelectSeq(@, LAMBDA x : MapKey(x.reference) # mapKey),
                 !.codeEdits = Append(@, item)]

ApplyCodeEdit(r, codeEdit) ==
    LET mapKey == MapKey(codeEdit.reference)
        item == [reference |-> codeEdit.reference, range |-> codeEdit.range]
    IN [r EXCEPT !.codeEditsPreviewBySymbol =
                     IF mapKey \in DOMAIN @ THEN MapDelete(@, mapKey) ELSE @,
                 !.codeEdits = Append(@, item)]

\* The public getters of the response model.
Breakdowns(r) == [i \in 1..Len(r.breakdowns) |-> r.objs[r.breakdowns[i]]]

\* The switch of acceptResponseProgress.
ApplyProgress(r, progress) ==
    CASE progress.kind = "markdownContent" -> [r EXCEPT !.result = Some(progress.content)]
      [] progress.kind = "breakdown" -> ApplyBreakdown(r, progress)
      [] progress.kind = "goToDefinition" -> ApplyGoToDefinition(r, progress)
      [] progress.kind = "textEditPreview" -> ApplyCodeEditPreview(r, progress)
      [] progress.kind = "textEdit" -> ApplyCodeEdit(r, progress)
      [] OTHER -> r

(***************************************************************************)
(* AideProbeModel operations.                                              *)
(***************************************************************************)
ProbeOp(op, kind, threw) == [op |-> op, kind |-> kind, threw |-> threw]

ProbeInit ==
    /\ request = None
    /\ response = None
    /\ isComplete = FALSE
    /\ isTailing = FALSE
    /\ changeFired = 0
    /\ appliedRefs = <<>>
    /\ probeOp = ProbeOp("constructor", "", FALSE)
    /\ accepted = None

\* set request(value)
SetRequest ==
    /\ request' = Some("request")
    /\ probeOp' = ProbeOp("setRequest", "", FALSE)
    /\ accepted' = None
    /\ UNCHANGED <<response, isComplete, isTailing, changeFired, appliedRefs>>
    /\ UNCHANGED notProbe

\* A variant of acceptResponseProgress that creates the response before it checks the request.
AcceptResponseProgress_ChecksLate ==
    /\ UNCHANGED notProbe
    /\ \E progress \in IAideProbeProgress :
           IF request = None
           THEN /\ response' = IF response = None THEN Some(NewResponseModel) ELSE response
                /\ probeOp' = ProbeOp("acceptResponseProgress", progress.kind, TRUE)
                /\ accepted' = None
                /\ UNCHANGED <<request, isComplete, isTailing, changeFired, appliedRefs>>
           ELSE /\ changeFired < MaxChanges
                /\ LET r == IF response = None THEN NewResponseModel ELSE response[1] IN
                   response' = Some(ApplyProgress(r, progress))
                /\ changeFired' = changeFired + 1
                /\ appliedRefs' =
                       IF progress.kind = "breakdown" /\ progress.reference \notin Range(appliedRefs)
                       THEN Append(appliedRefs, progress.reference)
                       ELSE appliedRefs
                /\ probeOp' = ProbeOp("acceptResponseProgress", progress.kind, FALSE)
                /\ accepted' = Some(progress)
                /\ UNCHANGED <<request, isComplete, isTailing>>

AcceptResponseProgress ==
    /\ UNCHANGED notProbe
    /\ \E progress \in IAideProbeProgress :
           IF request = None
           THEN \* throw new Error('Request not yet initialised')
                /\ probeOp' = ProbeOp("acceptResponseProgress", progress.kind, TRUE)
                /\ accepted' = None
                /\ UNCHANGED <<request, response, isComplete, isTailing, changeFired, appliedRefs>>
           ELSE /\ changeFired < MaxChanges
                /\ LET r == IF response = None THEN NewResponseModel ELSE response[1] IN
                   response' = Some(ApplyProgress(r, progress))
                /\ changeFired' = changeFired + 1
                /\ appliedRefs' =
                       IF progress.kind = "breakdown" /\ progress.reference \notin Range(appliedRefs)
                       THEN Append(appliedRefs, progress.reference)
                       ELSE appliedRefs
                /\ probeOp' = ProbeOp("acceptResponseProgress", progress.kind, FALSE)
                /\ accepted' = Some(progress)
                /\ UNCHANGED <<request, isComplete, isTailing>>

\* completeResponse(): followAlong(false) is part of it.
CompleteResponse ==
    /\ changeFired < MaxChanges
    /\ isComplete' = TRUE
    /\ isTailing' = FALSE
    /\ changeFired' = changeFired + 1
    /\ probeOp' = ProbeOp("completeResponse", "", FALSE)
    /\ accepted' = None
    /\ UNCHANGED <<request, response, appliedRefs>>
    /\ UNCHANGED notProbe

CancelRequest ==
    /\ changeFired < MaxChanges
    /\ request' = None
    /\ response' = None
    /\ isComplete' = FALSE
    /\ changeFired' = changeFired + 1
    /\ appliedRefs' = <<>>
    /\ probeOp' = ProbeOp("cancelRequest", "", FALSE)
    /\ accepted' = None
    /\ UNCHANGED isTailing
    /\ UNCHANGED notProbe

FollowAlong ==
    /\ \E follow \in BOOLEAN : isTailing' = follow
    /\ probeOp' = ProbeOp("followAlong", "", FALSE)
    /\ accepted' = None
    /\ UNCHANGED <<request, response, isComplete, changeFired, appliedRefs>>
    /\ UNCHANGED notProbe

ProbeNext ==
    \/ SetRequest
    \/ AcceptResponseProgress
    \/ CompleteResponse
    \/ CancelRequest
    \/ FollowAlong

(***************************************************************************)
(* AideAgentSessionProvider: the streamed edit pipeline.                   *)
(***************************************************************************)
\* provideEditStreamed is called at most this often in a behaviour.
MaxEditCalls == 4
\* At most this many provideEditStreamed calls are suspended at an await at once.
MaxInFlight == 2
\* When calls may overlap, provideEditStreamed is called at most this often.
MaxOverlapCalls == 3

EditIds == {"e1", "e2"}
Streams == {"s1", "s2"}
\* Delta payloads: none, part of a line, the end of a line followed by an empty line.
Deltas == {<<>>, <<"y">>, <<"x", "\n", "\n">>}

StreamEvents ==
    {[type |-> "Start", Delta |-> <<>>], [type |-> "End", Delta |-> <<>>]}
        \cup {[type |-> "Delta", Delta |-> d] : d \in Deltas}
EditedCodeStreamingRequest ==
    [event : StreamEvents, edit_request_id : EditIds, apply_directly : BOOLEAN]

\* The lines of text that end in a line feed, in order, without the line feed.
RECURSIVE CompleteLinesFrom(_, _)
CompleteLinesFrom(text, line) ==
    IF text = <<>> THEN <<>>
    ELSE IF Head(text) = "\n" THEN <<line>> \o CompleteLinesFrom(Tail(text), <<>>)
    ELSE CompleteLinesFrom(Tail(text), Append(line, Head(text)))
CompleteLines(text) == CompleteLinesFrom(text, <<>>)

\* What follows the last line feed of text.
RECURSIVE PartialLineFrom(_, _)
PartialLineFrom(text, line) ==
    IF text = <<>> THEN line
    ELSE IF Head(text) = "\n" THEN PartialLineFrom(Tail(text), <<>>)
    ELSE PartialLineFrom(Tail(text), Append(line, Head(text)))

\* new AnswerSplitOnNewLineAccumulatorStreaming() with new StreamProcessor(...):
\* accumulator and lines are the splitter's state; processed, inFlight, cleaned
\* are the processor's; received and lateLines are history.
NewManager(id, stream, applyDirectly, counter) ==
    [edit_request_id |-> id,
     responseStream |-> stream,
     apply_directly |-> applyDirectly,
     editCounter |-> counter,
     accumulator |-> <<>>,
     lines |-> <<>>,
     received |-> <<>>,
     processed |-> <<>>,
     inFlight |-> 0,
     cleaned |-> FALSE,
     lateLines |-> 0]

\* answerSplitter.addDelta(delta): whole lines move to the queue, the rest stays.
AddDelta(m, delta) ==
    [m EXCEPT !.accumulator = PartialLineFrom(delta, @),
              !.lines = @ \o CompleteLinesFrom(delta, m.accumulator),
              !.received = @ \o delta]

\* The `while (true)` loop of the End and Delta branches, up to its next await:
\* getLine() gives null (End: cleanup() and the save is awaited; Delta: the call
\* returns) or a line, whose processLine is started and awaited.
\* A variant of the loop that does not hand empty lines to processLine.
DrainLoop_SkipsEmptyLines(m, type) ==
    LET rest == IF m.lines # <<>> /\ Head(m.lines) = <<>> THEN Tail(m.lines) ELSE m.lines IN
    IF rest = <<>>
    THEN [pc |-> IF type = "End" THEN "save" ELSE "return",
          manager |-> [m EXCEPT !.lines = <<>>,
                                !.cleaned = IF type = "End" THEN TRUE ELSE @]]
    ELSE [pc |-> "processLine",
          manager |-> [m EXCEPT !.lines = Tail(rest),
                                !.processed = Append(@, Head(rest)),
                                !.inFlight = @ + 1,
                                !.lateLines = IF m.cleaned THEN @ + 1 ELSE @]]

DrainLoop(m, type) ==
    IF m.lines = <<>>
    THEN [pc |-> IF type = "End" THEN "save" ELSE "return",
          manager |-> [m EXCEPT !.cleaned = IF type = "End" THEN TRUE ELSE @]]
    ELSE [pc |-> "processLine",
          manager |-> [m EXCEPT !.lines = Tail(@),
                                !.processed = Append(@, Head(m.lines)),
                                !.inFlight = @ + 1,
                                !.lateLines = IF m.cleaned THEN @ + 1 ELSE @]]

\* An event the pipeline cannot apply: no open response stream without
\* apply_directly, or a Delta or End for an id that has no entry in editsMap.
Unappliable(req) ==
    \/ ~req.apply_directly /\ openResponseStream = None
    \/ /\ req.event.type = "End" \/ (req.event.type = "Delta" /\ req.event.Delta # <<>>)
       /\ req.edit_request_id \notin DOMAIN editsMap

EditOp(op, req, outcome, unappliable) ==
    [op |-> op, event |-> req.event.type, edit_request_id |-> req.edit_request_id,
     outcome |-> outcome, unappliable |-> unappliable]
NoRequest == [event |-> [type |-> ""], edit_request_id |-> ""]

RemoveAt(s, i) == [j \in 1..(Len(s) - 1) |-> IF j < i THEN s[j] ELSE s[j + 1]]

EditInit ==
    /\ editorUrl = None
    /\ openResponseStream = None
    /\ editCounter = 0
    /\ editsMap = <<>>
    /\ managers = <<>>
    /\ calls = <<>>
    /\ nCalls = 0
    /\ editOp = EditOp("constructor", NoRequest, "", FALSE)
    /\ givenStream = None

\* The constructor's getNextOpenPort().then(...): the port is found and editorUrl set.
PortFound ==
    /\ editorUrl = None
    /\ editorUrl' = Some("http://localhost")
    /\ editOp' = EditOp("portFound", NoRequest, "", FALSE)
    /\ UNCHANGED <<openResponseStream, editCounter, editsMap, managers, calls, nCalls>>
    /\ UNCHANGED notEdit
    /\ givenStream' = None

\* A variant of generateResponse that keeps a response stream it already holds.
GenerateResponse_KeepsFirst ==
    /\ UNCHANGED notEdit
    /\ \E responseStream \in Streams :
           /\ givenStream' = Some(responseStream)
           /\ IF editorUrl = None \/ openResponseStream # None
              THEN UNCHANGED openResponseStream
              ELSE openResponseStream' = Some(responseStream)
           /\ editOp' = EditOp("generateResponse", NoRequest,
                               IF editorUrl = None THEN "closed" ELSE "stored", FALSE)
           /\ UNCHANGED <<editorUrl, editCounter, editsMap, managers, calls, nCalls>>

\* generateResponse, as far as the provider's own state goes.
GenerateResponse ==
    /\ UNCHANGED notEdit
    /\ \E responseStream \in Streams :
           /\ givenStream' = Some(responseStream)
           /\ IF editorUrl = None
              THEN UNCHANGED openResponseStream
              ELSE openResponseStream' = Some(responseStream)
           /\ editOp' = EditOp("generateResponse", NoRequest,
                               IF editorUrl = None THEN "closed" ELSE "stored", FALSE)
           /\ UNCHANGED <<editorUrl, editCounter, editsMap, managers, calls, nCalls>>

\* provideEditStreamed(request), from its entry to its first await (or its end).
ProvideEditStreamedCall(limit) ==
    /\ UNCHANGED notEdit
    /\ givenStream' = None
    /\ \E req \in EditedCodeStreamingRequest :
           LET id == req.edit_request_id
               type == req.event.type
               un == Unappliable(req)
           IN
           /\ nCalls < MaxEditCalls
           /\ Len(calls) < limit
           /\ nCalls' = nCalls + 1
           /\ UNCHANGED <<editorUrl, openResponseStream, editCounter, editsMap>>
           /\ IF ~req.apply_directly /\ openResponseStream = None
              THEN \* 'editing_streamed::no_open_response_stream'
                   /\ editOp' = EditOp("call", req, "returnedFalse", un)
                   /\ UNCHANGED <<managers, calls>>
              ELSE IF type = "Start"
              THEN /\ calls' = Append(calls, [req |-> req, pc |-> "openTextDocument", manager |-> 0])
                   /\ editOp' = EditOp("call", req, "awaiting", un)
                   /\ UNCHANGED managers
              ELSE IF type = "End" /\ id \notin DOMAIN editsMap
              THEN \* editsManager is undefined: editsManager.answerSplitter throws a TypeError
                   /\ editOp' = EditOp("call", req, "threw", un)
                   /\ UNCHANGED <<managers, calls>>
              ELSE IF type = "Delta" /\ (req.event.Delta = <<>> \/ id \notin DOMAIN editsMap)
              THEN /\ editOp' = EditOp("call", req, "returnedTrue", un)
                   /\ UNCHANGED <<managers, calls>>
              ELSE LET ref == editsMap[id]
                       m == IF type = "Delta" THEN AddDelta(managers[ref], req.event.Delta)
                            ELSE managers[ref]
                       d == DrainLoop(m, type)
                   IN /\ managers' = [managers EXCEPT ![ref] = d.manager]
                      /\ IF d.pc = "return"
                         THEN /\ calls' = calls
                              /\ editOp' = EditOp("call", req, "returnedTrue", un)
                         ELSE /\ calls' = Append(calls, [req |-> req, pc |-> d.pc, manager |-> ref])
                              /\ editOp' = EditOp("call", req, "awaiting", un)

\* `await vscode.workspace.openTextDocument(...)` settles and the Start branch goes on.
OpenTextDocumentSettled ==
    /\ UNCHANGED notEdit
    /\ givenStream' = None
    /\ \E i \in 1..Len(calls), document \in {"document", "null", "rejected"} :
           LET req == calls[i].req IN
           /\ calls[i].pc = "openTextDocument"
           /\ calls' = RemoveAt(calls, i)
           /\ UNCHANGED <<editorUrl, openResponseStream, editCounter, nCalls>>
           /\ IF document = "document"
              THEN /\ managers' = Append(managers,
                                         NewManager(req.edit_request_id, openResponseStream,
                                                    req.apply_directly, editCounter))
                   /\ editsMap' = MapSet(editsMap, req.edit_request_id, Len(managers) + 1)
                   /\ editOp' = EditOp("resume", req, "returnedTrue", FALSE)
              ELSE /\ editOp' = EditOp("resume", req,
                                       IF document = "null" THEN "returnedFalse" ELSE "threw", FALSE)
                   /\ UNCHANGED <<managers, editsMap>>

\* `await editsManager.streamProcessor.processLine(currentLine)` settles and the loop goes on.
ProcessLineSettled ==
    /\ UNCHANGED notEdit
    /\ givenStream' = None
    /\ \E i \in 1..Len(calls) :
           LET req == calls[i].req
               ref == calls[i].manager
               m == [managers[ref] EXCEPT !.inFlight = @ - 1]
               d == DrainLoop(m, req.event.type)
           IN
           /\ calls[i].pc = "processLine"
           /\ managers' = [managers EXCEPT ![ref] = d.manager]
           /\ IF d.pc = "return"
              THEN /\ calls' = RemoveAt(calls, i)
                   /\ editOp' = EditOp("resume", req, "returnedTrue", FALSE)
              ELSE /\ calls' = [calls EXCEPT ![i].pc = d.pc]
                   /\ editOp' = EditOp("resume", req, "awaiting", FALSE)
           /\ UNCHANGED <<editorUrl, openResponseStream, editCounter, editsMap, nCalls>>

\* A variant of the end of the End branch that leaves the entry in editsMap.
SaveSettled_KeepsEntry ==
    /\ UNCHANGED notEdit
    /\ givenStream' = None
    /\ \E i \in 1..Len(calls) :
           LET req == calls[i].req IN
           /\ calls[i].pc = "save"
           /\ calls' = RemoveAt(calls, i)
           /\ editCounter' = editCounter + 1
           /\ editOp' = EditOp("resume", req, "returnedTrue", FALSE)
           /\ UNCHANGED <<editorUrl, openResponseStream, editsMap, managers, nCalls>>

\* `await vscode.workspace.save(...)` settles and the End branch finishes.
SaveSettled ==
    /\ UNCHANGED notEdit
    /\ givenStream' = None
    /\ \E i \in 1..Len(calls) :
           LET req == calls[i].req IN
           /\ calls[i].pc = "save"
           /\ calls' = RemoveAt(calls, i)
           /\ editsMap' = MapDelete(editsMap, req.edit_request_id)
           /\ editCounter' = editCounter + 1
           /\ editOp' = EditOp("resume", req, "returnedTrue", FALSE)
           /\ UNCHANGED <<editorUrl, openResponseStream, managers, nCalls>>

\* Calls handled one at a time: a call is made only when none is suspended.
ProvideEditStreamedSequential == ProvideEditStreamedCall(1)
\* Calls that may overlap.
ProvideEditStreamedOverlapping == nCalls < MaxOverlapCalls /\ ProvideEditStreamedCall(MaxInFlight)

EditSeqNext ==
    \/ PortFound
    \/ GenerateResponse
    \/ ProvideEditStreamedSequential
    \/ OpenTextDocumentSettled
    \/ ProcessLineSettled
    \/ SaveSettled

EditNext ==
    \/ PortFound
    \/ GenerateResponse
    \/ ProvideEditStreamedOverlapping
    \/ OpenTextDocumentSettled
    \/ ProcessLineSettled
    \/ SaveSettled

(***************************************************************************)
(* promiseFromEvent(event, adapter).  The returned promise is                *)
(* new Promise(executor).then(onResolved, onRejected): the executor          *)
(* subscribes to the event, and the two then-callbacks, which dispose the    *)
(* subscription, run as a job of their own after the inner promise settles.  *)
(***************************************************************************)
\* At most this many events are emitted in a behaviour.
MaxEvents == 4

EventValues == {"u1", "u2"}
\* What one adapter call does: calls resolve, calls reject, neither, throws,
\* or returns a promise that rejects later.
AdapterBehaviours == {"resolve", "reject", "nothing", "throw", "rejectLater"}

\* state is the inner promise's; subscribed: the subscription is not disposed;
\* thenQueued: the then-callback job is queued; catchQueued: a rejected adapter
\* promise waits for its .catch(reject); the counters are history.
NewPromiseFromEvent ==
    [state |-> "pending", value |-> "", subscribed |-> TRUE, thenQueued |-> FALSE,
     catchQueued |-> 0, adapterCalls |-> 0, lateAdapterCalls |-> 0]

\* resolve(value) or reject(reason) of the inner promise: the first one wins.
Settle(p, state, value) ==
    IF p.state = "pending"
    THEN [p EXCEPT !.state = state, !.value = value, !.thenQueued = TRUE]
    ELSE p

\* The event listener of promiseFromEvent, for one emitted event.
OnEvent(p, value, behaviour) ==
    IF ~p.subscribed THEN p
    ELSE LET called == [p EXCEPT !.adapterCalls = @ + 1,
                                 !.lateAdapterCalls = IF p.state # "pending" THEN @ + 1 ELSE @]
         IN CASE behaviour = "resolve" -> Settle(called, "resolved", value)
              [] behaviour \in {"reject", "throw"} -> Settle(called, "rejected", behaviour)
              [] behaviour = "rejectLater" -> [called EXCEPT !.catchQueued = @ + 1]
              [] OTHER -> called

\* cancel.fire(): the listener registered on cancel.event rejects with 'Cancelled'.
OnCancel(p) == Settle(p, "rejected", "Cancelled")

\* The queued then-callback runs: subscription.dispose().
RunThen(p) == [p EXCEPT !.subscribed = FALSE, !.thenQueued = FALSE]

\* The .catch(reject) of a rejected adapter promise runs.
RunCatch(p) == Settle([p EXCEPT !.catchQueued = @ - 1], "rejected", "adapter")

EventInit ==
    /\ pfe = NewPromiseFromEvent
    /\ nEvents = 0

EventEmitted ==
    /\ nEvents < MaxEvents
    /\ nEvents' = nEvents + 1
    /\ \E value \in EventValues, behaviour \in AdapterBehaviours :
           pfe' = OnEvent(pfe, value, behaviour)
    /\ UNCHANGED notEvent

CancelFired ==
    /\ pfe' = OnCancel(pfe)
    /\ UNCHANGED nEvents
    /\ UNCHANGED notEvent

ThenJobRuns ==
    /\ pfe.thenQueued
    /\ pfe' = RunThen(pfe)
    /\ UNCHANGED nEvents
    /\ UNCHANGED notEvent

CatchJobRuns ==
    /\ pfe.catchQueued > 0
    /\ pfe' = RunCatch(pfe)
    /\ UNCHANGED nEvents
    /\ UNCHANGED notEvent

EventNext ==
    \/ EventEmitted
    \/ CancelFired
    \/ ThenJobRuns
    \/ CatchJobRuns

(***************************************************************************)
(* CodeStoryAuthProvider.  secrets.get and secrets.store are requests to   *)
(* the host: each takes effect at one moment, and the code after the await *)
(* runs in a later step.                                                   *)
(***************************************************************************)
\* createSession is called at most this often in a behaviour.
MaxCreates == 2
\* At most this many removeSession calls are suspended at an await at once.
MaxRemoves == 1
\* At most this many redirect URIs reach the UriHandler in a behaviour.
MaxRedirects == 2

\* The session a store may hold before the provider is used.
OldSessionId == 0
\* A state id no login of this provider drew.
ForeignState == 99
\* uuidv4() values are fresh: the k-th createSession call draws the state id k
\* and, if it gets that far, the session id SessionIdBase + k.
SessionIdBase == 100
Tokens == {"t1"}

Session(id, token) == [id |-> id, accessToken |-> token]

\* getSessions(): the stored list, or [] when nothing is stored.
GetSessions(secret) == IF secret = None THEN <<>> ELSE secret[1]

\* handleUri(scopes): the adapter of login's promiseFromEvent.  It reads only
\* the `data` query parameter of the URI.
HandleUriBehaviour(uri) == IF uri.data = None THEN "reject" ELSE "resolve"

\* Redirect URIs: an optional `state` and an optional `data` query parameter.
RedirectUris(states) ==
    [state : {None} \cup {Some(st) : st \in states \cup {ForeignState}},
     data : {None} \cup {Some(t) : t \in Tokens}]

\* sessions.splice(sessionIdx, 1) with sessionIdx = findIndex(...): index -1
\* (not found) makes splice remove the last element.
SpliceFound(sessions, sessionId) ==
    LET hits == {i \in 1..Len(sessions) : sessions[i].id = sessionId}
        sessionIdx == IF hits = {} THEN -1 ELSE (CHOOSE i \in hits : \A j \in hits : i <= j) - 1
        at == IF sessionIdx = -1 THEN Len(sessions) ELSE sessionIdx + 1
    IN [session |-> IF sessionIdx = -1 THEN None ELSE Some(sessions[sessionIdx + 1]),
        sessions |-> IF sessions = <<>> THEN <<>> ELSE RemoveAt(sessions, at)]

AuthOp(op, outcome, session) == [op |-> op, outcome |-> outcome, session |-> session]

\* The provider as constructed; the secret store holds nothing, an empty list or one session.
AuthConstructed ==
    /\ pendingStates = <<>>
    /\ loginPromises = <<>>
    /\ logins = <<>>
    /\ creates = <<>>
    /\ removes = <<>>
    /\ uuids = 0
    /\ nRedirects = 0
    /\ authOp = AuthOp("constructor", "", None)

AuthIdle == AuthConstructed /\ secretSessions = None
AuthInit ==
    /\ AuthConstructed
    /\ secretSessions \in {None, Some(<<>>), Some(<<Session(OldSessionId, "t0")>>)}

\* createSession -> login: a state id is drawn and pushed, the browser is opened.
CreateSessionCalled ==
    /\ uuids < MaxCreates
    /\ LET stateId == uuids + 1 IN
       /\ uuids' = stateId
       /\ pendingStates' = Append(pendingStates, stateId)
       /\ creates' = Append(creates, [pc |-> "openExternal", stateId |-> stateId,
                                      login |-> 0, session |-> None])
    /\ authOp' = AuthOp("createSession", "awaiting", None)
    /\ UNCHANGED <<secretSessions, loginPromises, logins, removes, nRedirects>>
    /\ UNCHANGED notAuth

\* After `await env.openExternal`: promiseFromEvent(this._uriHandler.event, handleUri)
\* is made and stored, and the race with the timeout and the cancellation is awaited.
OpenExternalSettled ==
    /\ \E i \in 1..Len(creates) :
           LET stateId == creates[i].stateId
               ref == IF stateId \in DOMAIN loginPromises THEN loginPromises[stateId]
                      ELSE Len(logins) + 1
           IN
           /\ creates[i].pc = "openExternal"
           /\ IF stateId \in DOMAIN loginPromises
              THEN UNCHANGED <<logins, loginPromises>>
              ELSE /\ logins' = Append(logins, [stateId |-> stateId,
                                                promise |-> NewPromiseFromEvent,
                                                resolvedBy |-> None])
                   /\ loginPromises' = MapSet(loginPromises, stateId, ref)
           /\ creates' = [creates EXCEPT ![i].pc = "race", ![i].login = ref]
    /\ authOp' = AuthOp("createSession", "awaiting", None)
    /\ UNCHANGED <<secretSessions, pendingStates, removes, uuids, nRedirects>>
    /\ UNCHANGED notAuth

\* UriEventHandler.handleUri(uri): the URI is fired to every listener still subscribed.
RedirectHandled ==
    /\ nRedirects < MaxRedirects
    /\ nRedirects' = nRedirects + 1
    /\ \E uri \in RedirectUris(Range(pendingStates)) :
           /\ logins' =
                  [ref \in 1..Len(logins) |->
                      LET l == logins[ref]
                          after == OnEvent(l.promise, IF uri.data = None THEN "" ELSE uri.data[1],
                                           HandleUriBehaviour(uri))
                      IN [l EXCEPT !.promise = after,
                                   !.resolvedBy = IF l.promise.state = "pending"
                                                     /\ after.state = "resolved"
                                                  THEN Some(uri) ELSE @]]
           /\ authOp' = AuthOp("handleUri", "", None)
    /\ UNCHANGED <<secretSessions, pendingStates, loginPromises, creates, removes, uuids>>
    /\ UNCHANGED notAuth

\* The then-callback job of a login's promiseFromEvent runs.
LoginThenJobRuns ==
    /\ \E ref \in 1..Len(logins) :
           /\ logins[ref].promise.thenQueued
           /\ logins' = [logins EXCEPT ![ref].promise = RunThen(@)]
    /\ authOp' = AuthOp("thenJob", "", None)
    /\ UNCHANGED <<secretSessions, pendingStates, loginPromises, creates, removes, uuids,
                   nRedirects>>
    /\ UNCHANGED notAuth

\* The race settles (the login promise, the 60 s timeout or the user's cancel):
\* the finally block runs, then createSession goes on to getUserInfo or throws.
RaceSettled ==
    /\ \E i \in 1..Len(creates), cause \in {"promise", "timeout", "userCancel"} :
           LET c == creates[i]
               l == logins[c.login]
               resolved == cause = "promise" /\ l.promise.state = "resolved"
           IN
           /\ c.pc = "race"
           /\ cause = "promise" => (l.promise.state # "pending" /\ ~l.promise.thenQueued)
           /\ pendingStates' = SelectSeq(pendingStates, LAMBDA n : n # c.stateId)
           /\ logins' = [logins EXCEPT ![c.login].promise = OnCancel(@)]
           /\ loginPromises' = MapDelete(loginPromises, c.stateId)
           /\ IF resolved
              THEN /\ creates' = [creates EXCEPT ![i].pc = "getUserInfo"]
                   /\ authOp' = AuthOp("createSession", "awaiting", None)
              ELSE /\ creates' = RemoveAt(creates, i)
                   /\ authOp' = AuthOp("createSession", "threw", None)
    /\ UNCHANGED <<secretSessions, removes, uuids, nRedirects>>
    /\ UNCHANGED notAuth

\* getUserInfo settles: it fails (bad token, no profile) and createSession throws,
\* or the session is built and secrets.store([session]) is requested.
GetUserInfoSettled ==
    /\ \E i \in 1..Len(creates), ok \in BOOLEAN :
           LET c == creates[i] IN
           /\ c.pc = "getUserInfo"
           /\ IF ok
              THEN /\ creates' = [creates EXCEPT
                                     ![i].pc = "store",
                                     ![i].session = Some(Session(SessionIdBase + c.stateId,
                                                                 logins[c.login].promise.value))]
                   /\ authOp' = AuthOp("createSession", "awaiting", None)
              ELSE /\ creates' = RemoveAt(creates, i)
                   /\ authOp' = AuthOp("createSession", "threw", None)
    /\ UNCHANGED <<secretSessions, pendingStates, loginPromises, logins, removes, uuids,
                   nRedirects>>
    /\ UNCHANGED notAuth

\* The host performs createSession's secrets.store([session]).
CreateStoreApplied ==
    /\ \E i \in 1..Len(creates) :
           /\ creates[i].pc = "store"
           /\ secretSessions' = Some(<<creates[i].session[1]>>)
           /\ creates' = [creates EXCEPT ![i].pc = "stored"]
    /\ authOp' = AuthOp("createSession", "awaiting", None)
    /\ UNCHANGED <<pendingStates, loginPromises, logins, removes, uuids, nRedirects>>
    /\ UNCHANGED notAuth

\* After `await this.context.secrets.store`: the change event fires, the session is returned.
CreateSessionReturned ==
    /\ \E i \in 1..Len(creates) :
           /\ creates[i].pc = "stored"
           /\ creates' = RemoveAt(creates, i)
           /\ authOp' = AuthOp("createSession", "returned", creates[i].session)
    /\ UNCHANGED <<secretSessions, pendingStates, loginPromises, logins, removes, uuids,
                   nRedirects>>
    /\ UNCHANGED notAuth

\* removeSession(sessionId) is called and awaits secrets.get.
RemoveSessionCalled ==
    /\ Len(removes) < MaxRemoves
    /\ \E sessionId \in {OldSessionId} \cup {SessionIdBase + k : k \in 1..uuids} :
           removes' = Append(removes, [pc |-> "get", sessionId |-> sessionId, sessions |-> <<>>,
                                       session |-> None])
    /\ authOp' = AuthOp("removeSession", "awaiting", None)
    /\ UNCHANGED <<secretSessions, pendingStates, loginPromises, logins, creates, uuids,
                   nRedirects>>
    /\ UNCHANGED notAuth

\* secrets.get settles with the stored value: nothing stored ends the call; else the
\* session is spliced out of the parsed list and secrets.store(sessions) is requested.
RemoveGetSettled ==
    /\ \E i \in 1..Len(removes) :
           /\ removes[i].pc = "get"
           /\ IF secretSessions = None
              THEN /\ removes' = RemoveAt(removes, i)
                   /\ authOp' = AuthOp("removeSession", "returned", None)
              ELSE LET sp == SpliceFound(secretSessions[1], removes[i].sessionId) IN
                   /\ removes' = [removes EXCEPT ![i].pc = "store",
                                                 ![i].sessions = sp.sessions,
                                                 ![i].session = sp.session]
                   /\ authOp' = AuthOp("removeSession", "awaiting", None)
    /\ UNCHANGED <<secretSessions, pendingStates, loginPromises, logins, creates, uuids,
                   nRedirects>>
    /\ UNCHANGED notAuth

\* The host performs removeSession's secrets.store(sessions).
RemoveStoreApplied ==
    /\ \E i \in 1..Len(removes) :
           /\ removes[i].pc = "store"
           /\ secretSessions' = Some(removes[i].sessions)
           /\ removes' = [removes EXCEPT ![i].pc = "stored"]
    /\ authOp' = AuthOp("removeSession", "awaiting", None)
    /\ UNCHANGED <<pendingStates, loginPromises, logins, creates, uuids, nRedirects>>
    /\ UNCHANGED notAuth

\* After the store: the change event fires if a session was found, and the call returns.
RemoveSessionReturned ==
    /\ \E i \in 1..Len(removes) :
           /\ removes[i].pc = "stored"
           /\ removes' = RemoveAt(removes, i)
           /\ authOp' = AuthOp("removeSession", "returned", removes[i].session)
    /\ UNCHANGED <<secretSessions, pendingStates, loginPromises, logins, creates, uuids,
                   nRedirects>>
    /\ UNCHANGED notAuth

AuthNext ==
    \/ CreateSessionCalled
    \/ OpenExternalSettled
    \/ RedirectHandled
    \/ LoginThenJobRuns
    \/ RaceSettled
    \/ GetUserInfoSettled
    \/ CreateStoreApplied
    \/ CreateSessionReturned
    \/ RemoveSessionCalled
    \/ RemoveGetSettled
    \/ RemoveStoreApplied
    \/ RemoveSessionReturned

(***************************************************************************)
(* parsePlanActionCommand and the Plan branch of generateResponse.         *)
(* A command is a sequence of characters.                                  *)
(***************************************************************************)
LowerCase == <<"a", "b", "c", "d", "e", "f", "g", "h", "i", "j", "k", "l", "m",
               "n", "o", "p", "q", "r", "s", "t", "u", "v", "w", "x", "y", "z">>
UpperCase == <<"A", "B", "C", "D", "E", "F", "G", "H", "I", "J", "K", "L", "M",
               "N", "O", "P", "Q", "R", "S", "T", "U", "V", "W", "X", "Y", "Z">>
DigitChars == <<"0", "1", "2", "3", "4", "5", "6", "7", "8", "9">>

\* \d, \w and \s of a JavaScript regular expression without flags.
IsDigit(c) == c \in Range(DigitChars)
IsWordChar(c) == c \in Range(LowerCase) \cup Range(UpperCase) \cup Range(DigitChars) \cup {"_"}
IsSpace(c) == c \in {" ", "\t", "\n", "\r"}

\* String.prototype.toUpperCase, one character and a whole string.
UpperChar(c) ==
    IF c \in Range(LowerCase)
    THEN UpperCase[CHOOSE i \in 1..Len(LowerCase) : LowerCase[i] = c]
    ELSE c
ToUpperCase(str) == [i \in 1..Len(str) |-> UpperChar(str[i])]

\* parseInt(digits, 10) of a non-empty string of decimal digits.
RECURSIVE ParseInt(_)
ParseInt(digits) ==
    IF digits = <<>> THEN 0
    ELSE 10 * ParseInt(SubSeq(digits, 1, Len(digits) - 1))
            + ((CHOOSE i \in 1..10 : DigitChars[i] = digits[Len(digits)]) - 1)

\* The length of the longest prefix of str whose characters are all in class.
RECURSIVE PrefixLen(_, _)
PrefixLen(str, class) ==
    IF str = <<>> \/ Head(str) \notin class THEN 0 ELSE 1 + PrefixLen(Tail(str), class)

CharsOf(str) == Range(str)
WordChars == Range(LowerCase) \cup Range(UpperCase) \cup Range(DigitChars) \cup {"_"}
SpaceChars == {" ", "\t", "\n", "\r"}

\* command.match(/^@(\w+)(?:\s+(\d+))?$/): <<>> for null, else <<[action, indexStr]>>
\* with indexStr <<>> when the optional group did not take part.  A character
\* after the word that is no word character must start the \s+ of the group,
\* so the word is the longest run of word characters after the "@".
MatchPlanCommand(command) ==
    IF command = <<>> \/ Head(command) # "@" THEN None
    ELSE LET afterAt == Tail(command)
             n == PrefixLen(afterAt, WordChars)
             action == SubSeq(afterAt, 1, n)
             rest == SubSeq(afterAt, n + 1, Len(afterAt))
             k == PrefixLen(rest, SpaceChars)
             indexStr == SubSeq(rest, k + 1, Len(rest))
         IN IF n = 0 THEN None
            ELSE IF rest = <<>> THEN Some([action |-> action, indexStr |-> None])
            ELSE IF k > 0 /\ indexStr # <<>> /\ \A i \in 1..Len(indexStr) : IsDigit(indexStr[i])
            THEN Some([action |-> action, indexStr |-> Some(indexStr)])
            ELSE None

CREATE == <<"C", "R", "E", "A", "T", "E">>
APPEND == <<"A", "P", "P", "E", "N", "D">>
DROP == <<"D", "R", "O", "P">>
EXECUTE == <<"E", "X", "E", "C", "U", "T", "E">>

\* parsePlanActionCommand(command): [threw, type, index], index <<>> when the
\* returned object has no index property.
ParsePlanActionCommand(command) ==
    LET match == MatchPlanCommand(command) IN
    IF match = None
    THEN [threw |-> FALSE, type |-> CREATE, index |-> None]
    ELSE LET actionType == ToUpperCase(match[1].action)
             indexStr == match[1].indexStr
         IN IF actionType = DROP \/ actionType = EXECUTE
            THEN IF indexStr = None
                 THEN [threw |-> TRUE, type |-> actionType, index |-> None]
                 ELSE [threw |-> FALSE, type |-> actionType, index |-> Some(ParseInt(indexStr[1]))]
            ELSE [threw |-> FALSE, type |-> actionType, index |-> None]

\* The request generateResponse acts on: a throw of the parser means CREATE.
PlanActionRequest(parsed) ==
    IF parsed.threw THEN [type |-> CREATE, index |-> None]
    ELSE [type |-> parsed.type, index |-> parsed.index]

\* The switch of generateResponse: the sidecar request made for the plan action.
PlanSidecarCall(planActionRequest) ==
    CASE planActionRequest.type = CREATE -> "createPlanRequest"
      [] planActionRequest.type = APPEND -> "appendPlanRequest"
      [] planActionRequest.type = DROP -> "dropPlanFromRequest"
      [] planActionRequest.type = EXECUTE -> "executePlanUntilRequest"
      [] OTHER -> "none"

\* The prompts tried: [blank] [@] word [blanks] [index] [blank].
PlanWords ==
    {<<>>, <<"d", "r", "o", "p">>, <<"D", "r", "o", "p">>, <<"e", "x", "e", "c", "u", "t", "e">>,
     <<"c", "r", "e", "a", "t", "e">>, <<"a", "p", "p", "e", "n", "d">>, <<"f", "o", "o">>,
     <<"d", "r", "o", "p", "1">>, <<"d", "r", "_", "o", "p">>}
PlanBlanks == {<<>>, <<" ">>, <<" ", " ">>, <<"\t">>, <<"\n">>}
PlanIndexes == {<<>>, <<"0">>, <<"7">>, <<"1", "2">>, <<"0", "7">>, <<"-", "1">>, <<"1", "a">>,
                <<"1", ".", "5">>}
PlanPrompts ==
    {lead \o at \o word \o blanks \o index \o trail :
        lead \in {<<>>, <<" ">>}, at \in {<<>>, <<"@">>}, word \in PlanWords,
        blanks \in PlanBlanks, index \in PlanIndexes, trail \in {<<>>, <<" ">>}}

\* No Plan-mode request is at hand.
PlanIdle ==
    /\ planPrompt = <<>>
    /\ planParsed = None
    /\ planCall = "idle"

\* A Plan-mode request with some prompt has arrived.
PlanInit ==
    /\ planPrompt \in PlanPrompts
    /\ planParsed = None
    /\ planCall = "pending"

\* generateResponse in Plan mode handles the request.
GenerateResponsePlan ==
    /\ planCall = "pending"
    /\ planParsed' = Some(ParsePlanActionCommand(planPrompt))
    /\ planCall' = PlanSidecarCall(PlanActionRequest(ParsePlanActionCommand(planPrompt)))
    /\ UNCHANGED planPrompt
    /\ UNCHANGED notPlan

PlanNext == GenerateResponsePlan

(***************************************************************************)
(* generateDiffstats (aideCommandPalettePanel.ts).                         *)
(***************************************************************************)
\* A file has at most this many lines added and this many removed.
MaxLines == 6

NumberOfBoxes == 5
DiffPaths == {"a.ts", "b.ts"}

\* addRatio > threshold, with addRatio = linesAdded / totalChanges and threshold
\* = (i + 1) / 5 for the 0-based box i: both are correctly rounded doubles of
\* rationals with small denominators, so they compare as the rationals do.
AddExceeds(i, linesAdded, totalChanges) == 5 * linesAdded > (i + 1) * totalChanges

\* delRatio > (1 - threshold).  In doubles 1 - 0.2, 1 - 0.4, 1 - 0.6 and 1 - 1 are
\* 0.8, 0.6, 0.4 and 0, but 1 - 0.8 is 0.19999999999999996, just below 0.2: for
\* box 3 a delRatio of exactly 1/5 exceeds it.
DelExceeds(i, linesRemoved, totalChanges) ==
    IF i = 3 THEN 5 * linesRemoved >= totalChanges
    ELSE 5 * linesRemoved > (4 - i) * totalChanges

CalculateDiffstat(totalChanges, linesAdded, linesRemoved) ==
    IF totalChanges = 0
    THEN [b \in 1..NumberOfBoxes |-> "emtpty"]
    ELSE [b \in 1..NumberOfBoxes |->
             IF AddExceeds(b - 1, linesAdded, totalChanges) THEN "added"
             ELSE IF DelExceeds(b - 1, linesRemoved, totalChanges) THEN "removed"
             ELSE "empty"]

GenerateDiffstats(changes) ==
    [path \in DOMAIN changes |->
        CalculateDiffstat(changes[path].added + changes[path].removed,
                          changes[path].added, changes[path].removed)]

FileChanges == [added : 0..MaxLines, removed : 0..MaxLines]

\* generateDiffstats is not in use.
DiffIdle ==
    /\ fileChanges = <<>>
    /\ diffstats = Some(<<>>)

\* generateDiffstats is about to be called with some record of file changes.
DiffInit ==
    /\ \E paths \in SUBSET DiffPaths : fileChanges \in [paths -> FileChanges]
    /\ diffstats = None

GenerateDiffstatsCalled ==
    /\ diffstats = None
    /\ diffstats' = Some(GenerateDiffstats(fileChanges))
    /\ UNCHANGED fileChanges
    /\ UNCHANGED notDiff

DiffNext == GenerateDiffstatsCalled

\* Each specification starts its own component; the others stay idle.
Init == ProbeInit /\ EditInit /\ EventInit /\ AuthIdle /\ PlanIdle /\ DiffIdle
InitAuth == ProbeInit /\ EditInit /\ EventInit /\ AuthInit /\ PlanIdle /\ DiffIdle
InitPlan == ProbeInit /\ EditInit /\ EventInit /\ AuthIdle /\ PlanInit /\ DiffIdle
InitDiff == ProbeInit /\ EditInit /\ EventInit /\ AuthIdle /\ PlanIdle /\ DiffInit
SpecProbe == Init /\ [][ProbeNext]_vars
Spec == SpecProbe

(***************************************************************************)
(* Properties of the probe model.                                          *)
(***************************************************************************)
\* The response as its public getters show it; no response reads as an empty one.
PublicView(resp) ==
    LET r == IF resp = None THEN NewResponseModel ELSE resp[1] IN
    [result |-> r.result,
     breakdowns |-> Breakdowns(r),
     goToDefinitions |-> r.goToDefinitions,
     codeEditsPreview |-> r.codeEditsPreview,
     codeEdits |-> r.codeEdits]

BreakdownReferences(resp) ==
    LET b == PublicView(resp).breakdowns IN [i \in 1..Len(b) |-> b[i].reference]

\* C1: breakdowns holds exactly one entry for each distinct (reference.uri,
\* reference.name) pair applied to the response, in first-application order.
C1_OneBreakdownPerSymbol == BreakdownReferences(response) = appliedRefs

\* C2: acceptResponseProgress with no request set throws and leaves request,
\* response, isComplete and isTailing as they were, without firing onDidChange.
C2_NoRequestThrowsUnchanged ==
    [][(probeOp'.op = "acceptResponseProgress" /\ (request = None \/ probeOp'.threw))
        => /\ request = None
           /\ probeOp'.threw
           /\ response' = None
           /\ UNCHANGED <<request, response, isComplete, isTailing, changeFired>>]_vars

\* C2 witness: a progress was refused after the model had been used and cancelled.
C2_Witness ==
    /\ probeOp.op = "acceptResponseProgress"
    /\ probeOp.threw
    /\ request = None
    /\ isTailing
    /\ changeFired > 0

\* The public collection each progress kind writes.
CollectionOf(kind) ==
    CASE kind = "markdownContent" -> "result"
      [] kind = "breakdown" -> "breakdowns"
      [] kind = "goToDefinition" -> "goToDefinitions"
      [] kind = "textEditPreview" -> "codeEditsPreview"
      [] kind = "textEdit" -> "codeEdits"

\* C3: an accepted progress changes no public collection of the response other
\* than the one of its kind, and fires onDidChange exactly once.
C3_OnlyMatchingCollectionChanges ==
    [][(probeOp'.op = "acceptResponseProgress" /\ ~probeOp'.threw)
        => /\ \A c \in DOMAIN PublicView(response) :
                  c # CollectionOf(probeOp'.kind) => PublicView(response')[c] = PublicView(response)[c]
           /\ changeFired' = changeFired + 1
           /\ UNCHANGED <<request, isComplete, isTailing>>]_vars

\* C3 witness: a textEdit was accepted for a symbol that has a preview, next to a breakdown.
C3_Witness ==
    /\ probeOp.op = "acceptResponseProgress"
    /\ probeOp.kind = "textEdit"
    /\ ~probeOp.threw
    /\ response # None
    /\ LET v == PublicView(response) IN
       /\ Len(v.breakdowns) > 0
       /\ Len(v.codeEdits) > 0
       /\ \E i \in 1..Len(v.codeEditsPreview) :
              v.codeEditsPreview[i].reference = v.codeEdits[Len(v.codeEdits)].reference
SpecEditSeq == Init /\ [][EditSeqNext]_vars
SpecEdit == Init /\ [][EditNext]_vars

\* The positions of the public breakdowns list that hold the symbol of a reference.
BreakdownPositions(resp, reference) ==
    {i \in 1..Len(PublicView(resp).breakdowns) :
        /\ PublicView(resp).breakdowns[i].reference.uri = reference.uri
        /\ PublicView(resp).breakdowns[i].reference.name = reference.name}

\* C11: a breakdown applied for a symbol that already has one leaves the list as
\* long as it was and every entry where it was; the symbol's entry takes each of
\* query, reason and response from the incoming breakdown when that value is
\* present and non-empty and keeps its previous value otherwise.
C11_BreakdownUpdatedInPlace ==
    [][(/\ probeOp'.op = "acceptResponseProgress"
        /\ probeOp'.kind = "breakdown"
        /\ ~probeOp'.threw
        /\ BreakdownPositions(response, accepted'[1].reference) # {})
        => LET old == PublicView(response).breakdowns
               new == PublicView(response').breakdowns
               b == accepted'[1]
           IN /\ Len(new) = Len(old)
              /\ \A i \in 1..Len(old) :
                     IF i \in BreakdownPositions(response, b.reference)
                     THEN /\ new[i].reference = old[i].reference
                          /\ new[i].query = IF Present(b.query) THEN b.query ELSE old[i].query
                          /\ new[i].reason = IF Present(b.reason) THEN b.reason ELSE old[i].reason
                          /\ new[i].response =
                                 IF Present(b.response) THEN b.response ELSE old[i].response
                     ELSE new[i] = old[i]]_vars

\* C11 witness: the first of two breakdowns was updated by a progress that carried
\* a new query, no reason and an empty response.
C11_Witness ==
    /\ probeOp.op = "acceptResponseProgress"
    /\ probeOp.kind = "breakdown"
    /\ ~probeOp.threw
    /\ LET v == PublicView(response).breakdowns
           b == accepted[1]
       IN /\ Len(v) = 2
          /\ v[1].reference = b.reference
          /\ changeFired = 3
          /\ Present(b.query) /\ v[1].query = b.query
          /\ b.reason = Absent /\ Present(v[1].reason)
          /\ b.response = Some("") /\ Present(v[1].response)

\* Two go-to-definition entries are for the same symbol.
SameSymbol(g, h) == g.uri = h.uri /\ g.name = h.name

\* C12: goToDefinitions never holds two entries of one symbol; a definition
\* applied for a symbol already in the list leaves the list as it was, one for a
\* new symbol is appended, and no other step replaces an entry (the list only
\* empties when the request is cancelled), so a symbol keeps its first entry.
C12_GoToDefinitionIdempotent ==
    [][LET old == PublicView(response).goToDefinitions
           new == PublicView(response').goToDefinitions
           applied == /\ probeOp'.op = "acceptResponseProgress"
                      /\ probeOp'.kind = "goToDefinition"
                      /\ ~probeOp'.threw
       IN /\ \A i, j \in 1..Len(new) : SameSymbol(new[i], new[j]) => i = j
          /\ applied =>
                 LET g == accepted'[1] IN
                 IF \E i \in 1..Len(old) : SameSymbol(old[i], g)
                 THEN new = old
                 ELSE new = Append(old, [uri |-> g.uri, name |-> g.name, range |-> g.range])
          /\ ~applied => (new = old \/ new = <<>>)]_vars

\* C12 witness: a definition was applied for the first of two symbols in the
\* list, with a range other than the one the list holds for it.
C12_Witness ==
    /\ probeOp.op = "acceptResponseProgress"
    /\ probeOp.kind = "goToDefinition"
    /\ ~probeOp.threw
    /\ LET v == PublicView(response).goToDefinitions
           g == accepted[1]
       IN /\ Len(v) = 2
          /\ SameSymbol(v[1], g)
          /\ v[1].range # g.range

(***************************************************************************)
(* Properties of the streamed edit pipeline.                               *)
(***************************************************************************)
\* C4: a provideEditStreamed call with an event that cannot be applied returns a
\* result object without throwing and leaves editsMap and editCounter unchanged.
C4_UnappliableEventsAreDropped ==
    [][(editOp'.op = "call" /\ editOp'.unappliable)
        => /\ editOp'.outcome \in {"returnedTrue", "returnedFalse"}
           /\ UNCHANGED <<editsMap, editCounter>>]_vars

\* C5: with calls handled one at a time, the lines handed to processLine and the
\* lines still queued are, in order and each once, the whole lines of the text
\* received so far; once cleanup has run (End), nothing is queued, every whole
\* line has been handed over, no processLine is running and none starts later.
C5_LinesProcessedOnceInOrder ==
    \A ref \in 1..Len(managers) :
        LET m == managers[ref] IN
        /\ m.processed \o m.lines = CompleteLines(m.received)
        /\ m.cleaned => /\ m.lines = <<>>
                        /\ m.processed = CompleteLines(m.received)
                        /\ m.inFlight = 0
        /\ m.lateLines = 0

\* C5 witness: a stream was started, received a line in two deltas and an empty
\* line, and was ended: both lines were processed, cleanup ran, the entry is gone.
C5_Witness ==
    \E ref \in 1..Len(managers) :
        LET m == managers[ref] IN
        /\ m.cleaned
        /\ m.processed = << <<"y", "x">>, <<>> >>
        /\ m.edit_request_id \notin DOMAIN editsMap
        /\ editCounter = 1
        /\ calls = <<>>

\* C13: also when provideEditStreamed calls overlap, a stream has at most one
\* processLine call in flight and starts no processLine after its cleanup.
C13_OneProcessLineAtATime ==
    \A ref \in 1..Len(managers) :
        /\ managers[ref].inFlight <= 1
        /\ managers[ref].lateLines = 0

\* The step completes the handling of an event of the given type: the call's
\* branch for it ran to its end and the call returned success.
Handled(type) ==
    /\ editOp'.op = "resume"
    /\ editOp'.event = type
    /\ editOp'.outcome = "returnedTrue"

\* C14: editsMap and editCounter start empty and at 0; a handled Start adds its
\* id to editsMap, a handled End removes its id and adds one to editCounter, and
\* no other step changes either: editsMap holds the ids with a Start and no End
\* handled since, and editCounter is the number of Ends handled.
C14_EditBookkeeping ==
    [][/\ DOMAIN editsMap' =
              IF Handled("Start") THEN DOMAIN editsMap \cup {editOp'.edit_request_id}
              ELSE IF Handled("End") THEN DOMAIN editsMap \ {editOp'.edit_request_id}
              ELSE DOMAIN editsMap
       /\ editCounter' = IF Handled("End") THEN editCounter + 1 ELSE editCounter]_vars

\* C14 witness: the End of one stream was handled while another stream was open.
C14_Witness ==
    /\ editOp.op = "resume"
    /\ editOp.event = "End"
    /\ editOp.outcome = "returnedTrue"
    /\ editCounter = 1
    /\ DOMAIN editsMap = EditIds \ {editOp.edit_request_id}

\* C15: two edit streams created for different edit_request_ids were given
\* different editCounter values.
C15_DistinctEditCounterPerStream ==
    \A i, j \in 1..Len(managers) :
        managers[i].edit_request_id # managers[j].edit_request_id
            => managers[i].editCounter # managers[j].editCounter

SpecEvent == Init /\ [][EventNext]_vars

\* C6: once the promise has been resolved or rejected (by an adapter call or by
\* cancel), the adapter is not called for any event emitted afterwards.
C6_NoAdapterCallAfterSettled == pfe.lateAdapterCalls = 0

(***************************************************************************)
(* Properties of the authentication provider.                              *)
(***************************************************************************)
SpecAuth == InitAuth /\ [][AuthNext]_vars

\* C7: getSessions never returns more than one session, and when a createSession
\* call returns a session, getSessions returns exactly that session.
C7_SingleSessionIsTheCreatedOne ==
    /\ Len(GetSessions(secretSessions)) <= 1
    /\ (authOp.op = "createSession" /\ authOp.outcome = "returned")
           => GetSessions(secretSessions) = <<authOp.session[1]>>

\* C8: a login is resolved only by a redirect URI that carries the login's own
\* state id.
C8_LoginResolvedOnlyByOwnState ==
    \A ref \in 1..Len(logins) :
        logins[ref].promise.state = "resolved"
            => logins[ref].resolvedBy[1].state = Some(logins[ref].stateId)

(***************************************************************************)
(* Properties of parsePlanActionCommand and generateDiffstats.             *)
(***************************************************************************)
SpecPlan == InitPlan /\ [][PlanNext]_vars
SpecDiff == InitDiff /\ [][DiffNext]_vars

\* C9: parsePlanActionCommand throws or returns a PlanActionRequest: its type is
\* CREATE, APPEND, DROP or EXECUTE, and a DROP or EXECUTE carries an index that
\* is a non-negative integer.
C9_ParsedPlanActionIsWellTyped ==
    (planParsed # None /\ ~planParsed[1].threw)
        => /\ planParsed[1].type \in {CREATE, APPEND, DROP, EXECUTE}
           /\ planParsed[1].type \in {DROP, EXECUTE}
                  => (planParsed[1].index # None /\ planParsed[1].index[1] \in Nat)

\* C10: every DiffStat generateDiffstats returns has exactly 5 boxes, each 'added',
\* 'removed' or 'empty', the 'added' ones first and the 'removed' ones last.
C10_DiffStatIsFiveOrderedBoxes ==
    diffstats # None =>
    \A path \in DOMAIN fileChanges :
        LET stat == diffstats[1][path] IN
        /\ Len(stat) = 5
        /\ \A b \in 1..Len(stat) : stat[b] \in {"added", "removed", "empty"}
        /\ \A b, c \in 1..Len(stat) :
               b < c => /\ stat[c] = "added" => stat[b] = "added"
                        /\ stat[b] = "removed" => stat[c] = "removed"
====
